---- MODULE Spec2Model ----
(***************************************************************************)
(* Model of dir_to_clipboard (src/main.rs): one run of `main` over a      *)
(* directory tree.  Strings are sequences of one-character strings; a     *)
(* path is a sequence of names (its components).  The invalid byte 0xFF   *)
(* stands for any byte sequence that is not valid UTF-8.                   *)
(*                                                                         *)
(* The tree holds regular files and directories only (no symbolic links),  *)
(* every directory can be read, and the tree does not change during the    *)
(* run, so both walks of a directory see the same entries.  The results of *)
(* `ls -l`, of reading a file and of the clipboard are chosen freely at    *)
(* each call.                                                              *)
(***************************************************************************)
EXTENDS Naturals, Sequences, FiniteSets

VARIABLES fs, recursive, filter, pc, filter_pattern, walker, current_dir,
          output, clipboard, stdout, error, events, guards, visited

vars == <<fs, recursive, filter, pc, filter_pattern, walker, current_dir,
          output, clipboard, stdout, error, events, guards, visited>>

(* ---------------------------- bounds ---------------------------------- *)
\* most entries (files and directories) below the root, and deepest nesting
MaxNodes == 4
MaxDepth == 2

(* ---------------------------- strings --------------------------------- *)
\* Option<T>: None is the empty tuple, Some(x) the one-element tuple
None == <<>>
Some(x) == <<x>>
XFF == "0xFF"
REPLACEMENT == "U+FFFD"
DOT == <<".">>

a_rs == <<"a", ".", "r", "s">>
x_log == <<"x", ".", "l", "o", "g">>
gitignore == <<".", "g", "i", "t", "i", "g", "n", "o", "r", "e">>
bad_rs == <<XFF, ".", "r", "s">>
sub == <<"s", "u", "b">>
bad_dir == <<XFF>>

\* the names files and directories may have anywhere, and in the root
FileNames == {a_rs, x_log}
DirNames == {sub}
RootFileNames == FileNames \cup {bad_rs, gitignore}
RootDirNames == DirNames \cup {bad_dir}

\* the --filter arguments of the runs
star_rs == <<"*", ".", "r", "s">>
star == <<"*">>
bracket_abc == <<"[", "a", "b", "c">>
Filters == {None, Some(star_rs), Some(star), Some(bracket_abc)}

\* OsStr::to_str: Some(s) only when every byte sequence is valid UTF-8
to_str(name) ==
  IF \E i \in 1..Len(name) : name[i] = XFF THEN None ELSE Some(name)

\* OsStr::to_string_lossy: invalid sequences become U+FFFD
to_string_lossy_name(name) ==
  [i \in 1..Len(name) |-> IF name[i] = XFF THEN REPLACEMENT ELSE name[i]]

RECURSIVE JoinPath(_)
\* the components of a path joined by the separator
JoinPath(p) ==
  IF Len(p) = 0 THEN <<>>
  ELSE IF Len(p) = 1 THEN p[1]
  ELSE p[1] \o <<"/">> \o JoinPath(Tail(p))

\* Path::to_string_lossy().to_string(), and Path::display()
to_string_lossy(p) == JoinPath([i \in 1..Len(p) |-> to_string_lossy_name(p[i])])

RECURSIVE SplitPath(_, _)
\* Path::new(&str): the components of a string, cur being the one in progress
SplitPath(s, cur) ==
  IF Len(s) = 0 THEN <<cur>>
  ELSE IF Head(s) = "/" THEN <<cur>> \o SplitPath(Tail(s), <<>>)
  ELSE SplitPath(Tail(s), Append(cur, Head(s)))

PathNew(s) == SplitPath(s, <<>>)

parent(p) == SubSeq(p, 1, Len(p) - 1)
file_name(p) == p[Len(p)]

(* ------------------------- glob::Pattern ------------------------------ *)
\* Result<Pattern, PatternError>
Ok(tokens) == [ok |-> TRUE, tokens |-> tokens]
Err == [ok |-> FALSE, tokens |-> <<>>]
Tok(t, c, cs) == [t |-> t, c |-> c, cs |-> cs]

\* chars[from..].iter().position(|x| x == ']'), as an index of chars; 0 is None
FindClose(chars, from) ==
  IF \E j \in from..Len(chars) : chars[j] = "]"
  THEN CHOOSE j \in from..Len(chars) :
         chars[j] = "]" /\ \A k \in from..(j - 1) : chars[k] # "]"
  ELSE 0

CharSet(chars, lo, hi) == {chars[k] : k \in lo..hi}

RECURSIVE ParseFrom(_, _)
\* Pattern::new from position p (patterns without `**` and without ranges)
ParseFrom(chars, p) ==
  IF p > Len(chars) THEN Ok(<<>>)
  ELSE LET c == chars[p]
           n == Len(chars)
           Then(tok, next) ==
             LET rest == ParseFrom(chars, next)
             IN IF rest.ok THEN Ok(<<tok>> \o rest.tokens) ELSE Err
       IN CASE c = "?" -> Then(Tok("AnyChar", "", {}), p + 1)
            [] c = "*" -> Then(Tok("AnySequence", "", {}), p + 1)
            [] c = "[" ->
                 IF p + 3 <= n /\ chars[p + 1] = "!"
                 THEN LET q == FindClose(chars, p + 3)
                      IN IF q = 0 THEN Err
                         ELSE Then(Tok("AnyExcept", "", CharSet(chars, p + 2, q - 1)), q + 1)
                 ELSE IF p + 2 <= n /\ chars[p + 1] # "!"
                 THEN LET q == FindClose(chars, p + 2)
                      IN IF q = 0 THEN Err
                         ELSE Then(Tok("AnyWithin", "", CharSet(chars, p + 1, q - 1)), q + 1)
                 ELSE Err
            [] OTHER -> Then(Tok("Char", c, {}), p + 1)

\* a parser that takes every character literally, and so never fails
PatternNewLiteral(chars) ==
  Ok([i \in 1..Len(chars) |-> Tok("Char", chars[i], {})])

PatternNew(chars) == ParseFrom(chars, 1)

TokenAccepts(tok, c) ==
  CASE tok.t = "AnyChar" -> TRUE
    [] tok.t = "AnyWithin" -> c \in tok.cs
    [] tok.t = "AnyExcept" -> c \notin tok.cs
    [] OTHER -> c = tok.c

RECURSIVE MatchesFrom(_, _, _), AnySequenceFrom(_, _, _)
\* Pattern::matches_from with the default MatchOptions
MatchesFrom(tokens, i, file) ==
  IF i > Len(tokens)
  THEN IF file = <<>> THEN "Match" ELSE "SubPatternDoesntMatch"
  ELSE IF tokens[i].t = "AnySequence" THEN AnySequenceFrom(tokens, i, file)
  ELSE IF file = <<>> THEN "EntirePatternDoesntMatch"
  ELSE IF ~TokenAccepts(tokens[i], Head(file)) THEN "SubPatternDoesntMatch"
  ELSE MatchesFrom(tokens, i + 1, Tail(file))

\* the AnySequence arm: the empty match first, then one more character each time
AnySequenceFrom(tokens, i, file) ==
  LET m == MatchesFrom(tokens, i + 1, file)
  IN IF m # "SubPatternDoesntMatch" THEN m
     ELSE IF file = <<>> THEN MatchesFrom(tokens, i + 1, <<>>)
     ELSE AnySequenceFrom(tokens, i, Tail(file))

PatternMatches(tokens, str) == MatchesFrom(tokens, 1, str) = "Match"

(* --------------------------- file system ------------------------------ *)
File(name) == [name |-> name, is_dir |-> FALSE, children |-> <<>>]
Dir(name, children) == [name |-> name, is_dir |-> TRUE, children |-> children]

RECURSIVE Forests(_, _, _, _)
\* the directory contents of exactly n entries nested at most d deep, siblings
\* of distinct names, in every order
Forests(n, d, fnames, dnames) ==
  IF n = 0 THEN {<<>>}
  ELSE IF d = 0 THEN {}
  ELSE UNION {{<<File(x)>> \o r : r \in Forests(n - 1, d, fnames \ {x}, dnames)} :
              x \in fnames}
       \cup
       UNION {{<<Dir(x[1], c)>> \o r :
                 c \in Forests(x[2], d - 1, FileNames, DirNames),
                 r \in Forests(n - 1 - x[2], d, fnames, dnames \ {x[1]})} :
              x \in dnames \X (0..(n - 1))}

Trees == UNION {Forests(m, MaxDepth, RootFileNames, RootDirNames) : m \in 0..MaxNodes}

Entry(path, e) == [path |-> path, is_file |-> ~e.is_dir]

RECURSIVE WalkDir(_, _, _)
\* WalkDir::new(base) below base: depth first, a directory before its
\* contents, siblings in directory order, at most max_depth levels
WalkDir(base, entries, max_depth) ==
  IF entries = <<>> \/ max_depth = 0 THEN <<>>
  ELSE LET e == Head(entries)
           p == Append(base, e.name)
       IN <<Entry(p, e)>>
          \o (IF e.is_dir THEN WalkDir(p, e.children, max_depth - 1) ELSE <<>>)
          \o WalkDir(base, Tail(entries), max_depth)

RECURSIVE Lookup(_, _)
\* the contents of the directory at path (below the root), None when no
\* directory has that path
Lookup(entries, path) ==
  IF path = <<>> THEN Some(entries)
  ELSE IF \E i \in 1..Len(entries) : entries[i].name = Head(path) /\ entries[i].is_dir
  THEN LET i == CHOOSE i \in 1..Len(entries) :
                  entries[i].name = Head(path) /\ entries[i].is_dir
       IN Lookup(entries[i].children, Tail(path))
  ELSE None

\* the directory a path names, resolved from the working directory
ReadDir(root, path) ==
  IF path # <<>> /\ Head(path) = DOT THEN Lookup(root, Tail(path)) ELSE None

Unbounded == MaxDepth + 1

(* ----------------------------- program -------------------------------- *)
\* the filter matched against the lossy name instead of the to_str name
should_process_file_lossy(path, pattern) ==
  IF pattern # None
  THEN PatternMatches(pattern[1], to_string_lossy_name(file_name(path)))
  ELSE TRUE

should_process_file(path, pattern) ==
  IF pattern # None
  THEN LET name == to_str(file_name(path))
       IN IF name # None THEN PatternMatches(pattern[1], name[1]) ELSE FALSE
  ELSE TRUE

\* the second walk stopping at the directory's immediate children
directory_has_matching_files_depth1(root, dir_path, pattern) ==
  LET dir == ReadDir(root, dir_path)
  IN IF dir = None THEN FALSE
     ELSE LET found == WalkDir(dir_path, dir[1], 1)
          IN \E i \in 1..Len(found) :
               found[i].is_file /\ should_process_file(found[i].path, pattern)

\* dir_path is what Path::new was given; a path that names no directory
\* yields only an error entry, which filter_map drops
directory_has_matching_files(root, dir_path, pattern) ==
  LET dir == ReadDir(root, dir_path)
  IN IF dir = None THEN FALSE
     ELSE LET found == WalkDir(dir_path, dir[1], Unbounded)
          IN \E i \in 1..Len(found) :
               found[i].is_file /\ should_process_file(found[i].path, pattern)

\* the walker without its max_depth(1)
walker_entries_no_max_depth(root, rec) == WalkDir(<<DOT>>, root, Unbounded)

\* WalkDir::new(".").min_depth(1), with max_depth(1) unless --recursive
walker_entries(root, rec) ==
  WalkDir(<<DOT>>, root, IF rec THEN Unbounded ELSE 1)

\* the pieces pushed onto the output string
DirHeader(dir) == [seg |-> "=== Directory:", of |-> dir]
Listing(dir) == [seg |-> "ls -l", of |-> dir]
FileHeader(shown) == [seg |-> "=== File:", of |-> shown]
Contents(path) == [seg |-> "contents", of |-> JoinPath(path)]
Newline == [seg |-> "\\n", of |-> <<>>]

\* lines 98-101: the header always, the listing when `ls -l` gave one
directory_output(dir_path, listing_ok) ==
  <<DirHeader(dir_path)>> \o (IF listing_ok THEN <<Listing(dir_path)>> ELSE <<>>)

\* the file header pushed before the read is known to have succeeded
file_output_header_first(path, read_ok) ==
  <<FileHeader(to_string_lossy(path))>>
  \o (IF read_ok THEN <<Contents(path), Newline>> ELSE <<>>)

\* lines 107-111: header, contents and newline, all or nothing
file_output(path, read_ok) ==
  IF read_ok
  THEN <<FileHeader(to_string_lossy(path)), Contents(path), Newline>>
  ELSE <<>>

InvalidFilter == "Invalid filter pattern"
ClipboardInitFailed == "Failed to initialize clipboard"
ClipboardSetFailed == "Failed to set clipboard contents"
NoError == ""

Init ==
  /\ fs \in Trees
  /\ recursive \in BOOLEAN
  /\ filter \in Filters
  /\ pc = "parse"
  /\ filter_pattern = None
  /\ walker = <<>>
  /\ current_dir = None
  /\ output = <<>>
  /\ clipboard = <<>>
  /\ stdout = <<>>
  /\ error = NoError
  /\ events = <<>>
  /\ guards = <<>>
  /\ visited = <<>>

\* lines 63-68: the filter is compiled, or the run fails
ParseFilter ==
  /\ pc = "parse"
  /\ IF filter = None
     THEN /\ filter_pattern' = None
          /\ pc' = "clipboard"
          /\ error' = error
     ELSE LET r == PatternNew(filter[1])
          IN IF r.ok
             THEN /\ filter_pattern' = Some(r.tokens)
                  /\ pc' = "clipboard"
                  /\ error' = error
             ELSE /\ filter_pattern' = filter_pattern
                  /\ pc' = "exit"
                  /\ error' = InvalidFilter
  /\ UNCHANGED <<fs, recursive, filter, walker, current_dir, output, clipboard,
                 stdout, events, guards, visited>>

\* lines 70-86: the clipboard context, the empty output, the walker
InitClipboard ==
  /\ pc = "clipboard"
  /\ \E ok \in BOOLEAN :
       IF ok
       THEN /\ pc' = "walk"
            /\ output' = <<>>
            /\ walker' = walker_entries(fs, recursive)
            /\ current_dir' = None
            /\ error' = error
       ELSE /\ pc' = "exit"
            /\ error' = ClipboardInitFailed
            /\ UNCHANGED <<output, walker, current_dir>>
  /\ UNCHANGED <<fs, recursive, filter, filter_pattern, clipboard, stdout,
                 events, guards, visited>>

\* lines 89-112: one iteration of the loop; listing_ok and read_ok are the
\* results of get_directory_listing and read_file_contents
ProcessEntry ==
  /\ pc = "walk"
  /\ walker # <<>>
  /\ LET entry == Head(walker)
         path == entry.path
         passes == entry.is_file /\ should_process_file(path, filter_pattern)
         dir_path == to_string_lossy(parent(path))
         new_dir == current_dir # Some(dir_path)
         guarded == passes /\ new_dir /\ recursive
         has_match == directory_has_matching_files(fs, PathNew(dir_path), filter_pattern)
         announce == passes /\ new_dir /\ (~recursive \/ has_match)
     IN /\ walker' = Tail(walker)
        /\ visited' = Append(visited, [path |-> path, is_file |-> entry.is_file,
                                       passed |-> passes])
        /\ guards' = IF guarded
                     THEN Append(guards, [dir |-> PathNew(dir_path), file |-> path,
                                          result |-> has_match])
                     ELSE guards
        /\ current_dir' = IF announce THEN Some(dir_path) ELSE current_dir
        /\ \E listing_ok \in BOOLEAN, read_ok \in BOOLEAN :
             /\ output' = output
                  \o (IF announce THEN directory_output(dir_path, listing_ok) ELSE <<>>)
                  \o (IF passes THEN file_output(path, read_ok) ELSE <<>>)
             /\ events' = events
                  \o (IF announce
                      THEN <<[kind |-> "dir", dir |-> dir_path, file |-> path,
                              ok |-> listing_ok]>>
                      ELSE <<>>)
                  \o (IF passes
                      THEN <<[kind |-> "file", dir |-> dir_path, file |-> path,
                              ok |-> read_ok]>>
                      ELSE <<>>)
  /\ UNCHANGED <<fs, recursive, filter, pc, filter_pattern, clipboard, stdout, error>>

\* the clipboard write with its error dropped instead of returned
SetClipboardUnchecked ==
  /\ pc = "walk"
  /\ walker = <<>>
  /\ \E ok \in BOOLEAN :
       clipboard' = IF ok THEN Append(clipboard, output) ELSE clipboard
  /\ pc' = "print"
  /\ UNCHANGED <<fs, recursive, filter, filter_pattern, walker, current_dir,
                 output, stdout, error, events, guards, visited>>

\* lines 115-117: the whole output goes to the clipboard, or the run fails
SetClipboard ==
  /\ pc = "walk"
  /\ walker = <<>>
  /\ \E ok \in BOOLEAN :
       IF ok
       THEN /\ clipboard' = Append(clipboard, output)
            /\ pc' = "print"
            /\ error' = error
       ELSE /\ clipboard' = clipboard
            /\ pc' = "exit"
            /\ error' = ClipboardSetFailed
  /\ UNCHANGED <<fs, recursive, filter, filter_pattern, walker, current_dir,
                 output, stdout, events, guards, visited>>

\* lines 119-129: the confirmation and the summary of the options
PrintSummary ==
  /\ pc = "print"
  /\ stdout' = stdout
       \o <<"Directory contents and file contents have been copied to clipboard!">>
       \o (IF filter # None THEN <<"Filtered files using pattern">> ELSE <<>>)
       \o (IF recursive THEN <<"Processed subdirectories recursively">> ELSE <<>>)
  /\ pc' = "exit"
  /\ UNCHANGED <<fs, recursive, filter, filter_pattern, walker, current_dir,
                 output, clipboard, error, events, guards, visited>>

Next ==
  \/ ParseFilter
  \/ InitClipboard
  \/ ProcessEntry
  \/ SetClipboard
  \/ PrintSummary

Spec == Init /\ [][Next]_vars

(* ------------------- the tree and the filter, declaratively ----------- *)
RECURSIVE NodesBelow(_, _)
\* every entry below base, as a set
NodesBelow(base, entries) ==
  UNION {{[path |-> Append(base, entries[i].name), is_file |-> ~entries[i].is_dir]}
         \cup (IF entries[i].is_dir
               THEN NodesBelow(Append(base, entries[i].name), entries[i].children)
               ELSE {}) : i \in 1..Len(entries)}

Nodes == NodesBelow(<<DOT>>, fs)
FilePaths == {n.path : n \in {m \in Nodes : m.is_file}}
DirPaths == {<<DOT>>} \cup {n.path : n \in {m \in Nodes : ~m.is_file}}
IsBelow(p, d) == Len(p) > Len(d) /\ SubSeq(p, 1, Len(d)) = d

Utf8(name) == \A i \in 1..Len(name) : name[i] # XFF
EndsWith(name, suffix) ==
  /\ Len(name) >= Len(suffix)
  /\ SubSeq(name, Len(name) - Len(suffix) + 1, Len(name)) = suffix

\* what each filter of Filters accepts, by the meaning of the glob
Accepts(f, name) ==
  CASE f = None -> TRUE
    [] f = Some(star) -> Utf8(name)
    [] f = Some(star_rs) -> Utf8(name) /\ EndsWith(name, <<".", "r", "s">>)
    [] OTHER -> FALSE

EventIndexes(kind) == {i \in 1..Len(events) : events[i].kind = kind}
Announcements(dir) == {i \in EventIndexes("dir") : events[i].dir = dir}
RootDir == JoinPath(<<DOT>>)
Finished == pc = "exit" /\ error = NoError
PathsOf(entries) == [i \in 1..Len(entries) |-> entries[i].path]
HasSubdirectory == \E i \in 1..Len(fs) : fs[i].is_dir

(* ------------------------------ claims -------------------------------- *)

\* C3: without --recursive nothing deeper than the root's immediate children
\* is visited, emitted or announced; no directory is walked a second time and
\* the only directory announced or listed is the root.
C3_NonRecursiveDepthOne ==
  ~recursive =>
    /\ \A i \in 1..Len(walker) : Len(walker[i].path) = 2
    /\ \A i \in 1..Len(visited) : Len(visited[i].path) = 2
    /\ \A i \in 1..Len(events) :
         /\ events[i].dir = RootDir
         /\ Len(events[i].file) = 2
    /\ \A i \in 1..Len(output) :
         /\ output[i].seg \in {"=== Directory:", "ls -l"} => output[i].of = RootDir
         /\ output[i].seg = "contents" => Len(PathNew(output[i].of)) = 2
    /\ guards = <<>>

C3_Witness ==
  /\ ~recursive
  /\ Finished
  /\ EventIndexes("file") # {}
  /\ \E f \in FilePaths : Len(f) = 3 /\ should_process_file(f, filter_pattern)

\* C4: directory_has_matching_files(dir, filter) is true exactly when some
\* regular file at any depth below dir passes should_process_file, for every
\* directory of the tree under the compiled filter and for every guard the scan
\* evaluated on an existing directory; and a recursive scan emits no
\* announcement and no file event for a directory without a passing file in
\* its subtree.
C4_DirectoryHasMatch ==
  LET files == FilePaths
      dirs == DirPaths
      Passing(d) == \E f \in files : IsBelow(f, d) /\ Accepts(filter, file_name(f))
  IN /\ pc = "clipboard" =>
          \A d \in dirs :
            directory_has_matching_files(fs, d, filter_pattern)
              <=> \E f \in files : /\ IsBelow(f, d)
                                   /\ should_process_file(f, filter_pattern)
     /\ \A i \in 1..Len(guards) :
          guards[i].dir \in dirs => (guards[i].result <=> Passing(guards[i].dir))
     /\ (recursive /\ events # <<>>) =>
          \A d \in dirs :
            ~Passing(d) =>
              /\ Announcements(to_string_lossy(d)) = {}
              /\ \A i \in EventIndexes("file") : ~IsBelow(events[i].file, d)
              /\ \A i \in 1..Len(output) :
                   output[i].seg = "=== Directory:" => output[i].of # to_string_lossy(d)

C4_Witness ==
  /\ recursive
  /\ Finished
  /\ filter = Some(star_rs)
  /\ \E i \in 1..Len(guards) : guards[i].result /\ Len(guards[i].dir) = 2
  /\ ~\E f \in FilePaths : Len(f) = 2 /\ should_process_file(f, filter_pattern)
  /\ directory_has_matching_files(fs, <<DOT>>, filter_pattern)
  /\ \E d \in DirPaths :
       /\ \E f \in FilePaths : IsBelow(f, d)
       /\ ~directory_has_matching_files(fs, d, filter_pattern)

\* C6: with the malformed filter "[abc" the run fails with the pattern error
\* before any entry is visited, any directory listed or walked, anything written
\* to the clipboard or anything printed.
C6_MalformedFilterIsFatal ==
  filter = Some(bracket_abc) =>
    /\ pc \in {"parse", "exit"}
    /\ pc = "exit" => error = InvalidFilter
    /\ walker = <<>> /\ visited = <<>> /\ events = <<>> /\ guards = <<>>
    /\ output = <<>> /\ clipboard = <<>> /\ stdout = <<>>

C6_Witness ==
  /\ filter = Some(bracket_abc)
  /\ pc = "exit"
  /\ error = InvalidFilter
  /\ FilePaths # {}

\* what a sequence of events adds to the document
RECURSIVE Render(_)
Render(evs) ==
  IF evs = <<>> THEN <<>>
  ELSE LET e == Head(evs)
       IN (IF e.kind = "dir"
           THEN <<DirHeader(e.dir)>> \o (IF e.ok THEN <<Listing(e.dir)>> ELSE <<>>)
           ELSE IF e.ok
           THEN <<FileHeader(to_string_lossy(e.file)), Contents(e.file), Newline>>
           ELSE <<>>)
          \o Render(Tail(evs))

PassedFiles == SelectSeq(visited, LAMBDA v : v.passed)

\* C7: a failed listing or a failed read never ends the scan: no entry of the
\* walk is dropped, every passing file is handled whatever failed before it,
\* and the scan ends only at the clipboard write, after the last entry.  An
\* unreadable file adds nothing to the document, an unlistable directory its
\* header alone.
C7_IoFailuresAreNotFatal ==
  /\ error \in {NoError, InvalidFilter, ClipboardInitFailed, ClipboardSetFailed}
  /\ pc = "walk" =>
       /\ error = NoError
       /\ PathsOf(visited) \o PathsOf(walker) = PathsOf(walker_entries(fs, recursive))
  /\ pc \in {"print", "exit"} /\ error \in {NoError, ClipboardSetFailed} =>
       /\ walker = <<>>
       /\ PathsOf(visited) = PathsOf(walker_entries(fs, recursive))
  /\ LET files == SelectSeq(events, LAMBDA e : e.kind = "file")
     IN [i \in 1..Len(files) |-> files[i].file] = PathsOf(PassedFiles)
  /\ output = Render(events)

C7_Witness ==
  /\ Finished
  /\ clipboard # <<>>
  /\ \E i \in EventIndexes("dir") : ~events[i].ok /\ ~events[i + 1].ok
  /\ \E i \in EventIndexes("file"), j \in EventIndexes("file") :
       i < j /\ ~events[i].ok /\ events[j].ok

\* C8: the clipboard is written at most once, after the last entry of the walk
\* and with the whole document; a run that fails to initialise or to write the
\* clipboard ends with that error, writes nothing and prints nothing.
C8_ClipboardWrittenOnceAtEnd ==
  /\ Len(clipboard) <= 1
  /\ clipboard # <<>> =>
       /\ pc \in {"print", "exit"}
       /\ error = NoError
       /\ walker = <<>>
       /\ PathsOf(visited) = PathsOf(walker_entries(fs, recursive))
       /\ clipboard[1] = output
  /\ error # NoError => pc = "exit" /\ clipboard = <<>> /\ stdout = <<>>
  /\ error = ClipboardInitFailed => visited = <<>> /\ output = <<>>
  /\ stdout # <<>> => Len(clipboard) = 1 /\ pc = "exit"
  /\ pc = "exit" => (stdout # <<>> <=> error = NoError)

C8_Witness ==
  /\ pc = "exit"
  /\ error = ClipboardSetFailed
  /\ \E i \in 1..Len(output) : output[i].seg = "contents"

\* C9: without a filter every file passes; with one, a file passes exactly when
\* the glob accepts its base name (so two files of the same name in different
\* directories fare alike, and a name that is not valid UTF-8 never passes);
\* a directory never passes, whatever its name.
C9_FilterOnBaseNameOfFiles ==
  /\ \A i \in 1..Len(visited) :
       visited[i].passed
         <=> (visited[i].is_file /\ Accepts(filter, file_name(visited[i].path)))
  /\ \A i \in 1..Len(visited), j \in 1..Len(visited) :
       (/\ visited[i].is_file /\ visited[j].is_file
        /\ file_name(visited[i].path) = file_name(visited[j].path))
         => visited[i].passed = visited[j].passed
  /\ events # <<>> =>
       LET files == FilePaths
       IN /\ \A i \in EventIndexes("file") : events[i].file \in files
          /\ \A i \in 1..Len(output) :
               output[i].seg = "contents" => \E f \in files : JoinPath(f) = output[i].of

C9_Witness ==
  /\ Finished
  /\ filter = Some(star)
  /\ \E i \in 1..Len(visited) :
       /\ ~visited[i].is_file
       /\ PatternMatches(filter_pattern[1], file_name(visited[i].path))
  /\ \E i \in 1..Len(visited), j \in 1..Len(visited) :
       /\ Len(visited[i].path) # Len(visited[j].path)
       /\ file_name(visited[i].path) = file_name(visited[j].path)
       /\ visited[i].passed /\ visited[j].passed
  /\ \E i \in 1..Len(visited) : visited[i].is_file /\ ~visited[i].passed

\* C1: no directory is announced twice in one scan, and the parent of every
\* emitted file is announced exactly once.
C1_OneAnnouncementPerDirectory ==
  /\ \A d \in DirPaths : Cardinality(Announcements(to_string_lossy(d))) <= 1
  /\ \A i \in EventIndexes("file") :
       events[i].ok => Cardinality(Announcements(events[i].dir)) = 1

\* the first file of the directory (by its announced name) that passed
FirstPassing(dir) ==
  LET of_dir == SelectSeq(PassedFiles,
                          LAMBDA v : to_string_lossy(parent(v.path)) = dir)
  IN Head(of_dir).path

\* C2: every announcement of a directory precedes all file events of that
\* directory, and is immediately followed by the event of the first file of
\* the directory that passes the filter.
C2_AnnouncementJustBeforeFirstFile ==
  \A j \in EventIndexes("dir") :
    /\ \A i \in EventIndexes("file") : events[i].dir = events[j].dir => j < i
    /\ j < Len(events)
    /\ events[j + 1].kind = "file"
    /\ events[j + 1].file = FirstPassing(events[j].dir)

\* the ignore rules of <base-dir>/.gitignore, here the rule *.log when the
\* file exists (section 6: Ignore-rule source)
star_log == <<"*", ".", "l", "o", "g">>
IgnoreRules(root) ==
  IF \E i \in 1..Len(root) : root[i] = File(gitignore) THEN {star_log} ELSE {}

\* IgnoreRuleSet.isExcluded (section 3)
isExcluded(root, path) ==
  \E r \in IgnoreRules(root) :
    /\ to_str(file_name(path)) # None
    /\ PatternMatches(PatternNew(r).tokens, file_name(path))

\* C5: a file excluded by an active ignore rule is rejected and yields no file
\* event, whatever the filter.
C5_IgnoredFilesYieldNoEvent ==
  /\ \A i \in 1..Len(visited) : visited[i].passed => ~isExcluded(fs, visited[i].path)
  /\ \A i \in EventIndexes("file") : ~isExcluded(fs, events[i].file)

\* C10: the guard is evaluated only on the parent of the file that has just
\* passed, and is true; after a passing file has been processed current_dir is
\* that file's parent; on a root without subdirectories both modes produce the
\* one document: the root announced once, before the first passing file.
C10_GuardHoldsAndCurrentDirFollows ==
  /\ \A i \in 1..Len(guards) :
       /\ guards[i].dir = parent(guards[i].file)
       /\ \E k \in 1..Len(visited) :
            visited[k].path = guards[i].file /\ visited[k].passed
       /\ guards[i].result
  /\ (visited # <<>> /\ visited[Len(visited)].passed) =>
       current_dir = Some(to_string_lossy(parent(visited[Len(visited)].path)))
  /\ ~HasSubdirectory =>
       /\ \A i \in 1..Len(events) :
            /\ events[i].kind = "dir" <=> i = 1
            /\ events[i].dir = RootDir
       /\ output = Render(events)

====
